---- MODULE Spec2Model ----
(***************************************************************************)
(* A model of the PyTRIM / CyTRIM ensemble driver (pytrim/simulation.py)   *)
(* and of the single-ion stepping loop (pytrim/trajectory.py).             *)
(*                                                                         *)
(* One TRIMSimulation object runs in a worker thread (the run() call is    *)
(* cut at the points where another thread can observe or influence it);    *)
(* stop() is called from another thread at any moment.  The physics        *)
(* modules select_recoil, scatter and estop are not part of the modelled   *)
(* sources: their results are drawn from small sets that respect their     *)
(* documented contracts.                                                   *)
(*                                                                         *)
(* Floating point: Python floats are binary floating point numbers,        *)
(* rounded to nearest (ties to even) after every operation.  The model     *)
(* keeps exactly this arithmetic at a reduced width: a float is an         *)
(* integer number of units of 2^-FracBits carrying at most Prec            *)
(* significant bits (Python: Prec = 53).                                   *)
(*                                                                         *)
(* Seven specifications share the variables.  Spec is one run over a       *)
(* planar slab with stop() and the progress callback.  SpecConfigs is one  *)
(* run over every kind of configuration (all geometry classes, malformed   *)
(* ones included), with a failing collision kernel and a second            *)
(* TRIMSimulation object in the same process.  SpecGeometry applies the    *)
(* methods of the geometry classes of pytrim/geometry3d.py to points.      *)
(* SpecRays steps through Geometry3D.get_intersection.  SpecRecoil calls   *)
(* RecoilCascadeSimulator.register_collision (pytrim/recoil.py).           *)
(* SpecOrder is a sequential run over given per-ion rest positions.        *)
(* SpecGui is one run started by the front end (pytrim_gui.py), with       *)
(* stop_simulation in the GUI thread.                                      *)
(***************************************************************************)
EXTENDS Integers, Sequences, FiniteSets, TLC

\* ------------------------------------------------------------------ bounds
\* Largest ion count a configuration asks for (params.nion).
MaxIons == 3
\* Largest max_trajectories argument passed to run().
MaxTraj == 1
\* Significant bits of a float.
Prec == 3
\* Fraction bits of the smallest float quantum.
FracBits == 3

\* ------------------------------------------------------- program constants
\* trajectory.setup(): EMIN = 5.0 eV
EMIN == 5
\* PlanarGeometry.get_bounds: large = 5000.0
Large == 5000
\* geometry.py: ZMIN = 0, ZMAX = 0 until geometry.setup is called
ZMIN == 0
ZMAX == 0

\* ---------------------------------------------------------------- floats
RECURSIVE Pow2(_)
Pow2(n) == IF n = 0 THEN 1 ELSE 2 * Pow2(n - 1)

Scale == Pow2(FracBits)

\* The spacing of the floats around a units (a >= 0).
RECURSIVE UlpFrom(_, _)
UlpFrom(a, u) == IF a >= Pow2(Prec) * u THEN UlpFrom(a, 2 * u) ELSE u

\* num/den units (num >= 0, den > 0) rounded to the nearest float, ties to
\* the even significand.
RoundPos(num, den) ==
    LET u  == UlpFrom(num \div den, 1)
        lo == (num \div (den * u)) * u
        r2 == 2 * (num - lo * den)
    IN  IF r2 < u * den THEN lo
        ELSE IF r2 > u * den THEN lo + u
        ELSE IF (lo \div u) % 2 = 0 THEN lo ELSE lo + u

Round(num, den) ==
    IF num >= 0 THEN RoundPos(num, den) ELSE 0 - RoundPos(0 - num, den)

\* float(k) for an integer k
FromInt(k) == Round(k * Scale, 1)
\* a + b, a - b, a * b on floats; a / n for a float a and a count n > 0
FAdd(a, b) == Round(a + b, 1)
FSub(a, b) == Round(a - b, 1)
FMul(a, b) == Round(a * b, Scale)
FDiv(a, n) == Round(a, n)

RECURSIVE SqrtFrom(_, _)
SqrtFrom(n, k) == IF (k + 1) * (k + 1) > n THEN k ELSE SqrtFrom(n, k + 1)

\* math.sqrt(a) for a float a >= 0, correctly rounded.
FSqrt(a) ==
    LET n  == a * Scale
        s  == SqrtFrom(n, 0)
        u  == UlpFrom(s, 1)
        lo == (s \div u) * u
        hi == lo + u
    IN  IF lo * lo = n THEN lo
        ELSE IF 4 * n < (lo + hi) * (lo + hi) THEN lo
        ELSE IF 4 * n > (lo + hi) * (lo + hi) THEN hi
        ELSE IF (lo \div u) % 2 = 0 THEN lo ELSE hi

\* ------------------------------------------------------------ input sets
\* Initial energies a configuration may ask for (params.e_init), around EMIN.
EInits == {EMIN, EMIN + 2}
\* Initial positions (params.x_init, y_init, z_init).
PosInits == {<<0, 0, 1>>}
\* The faces of the slab (params.zmin, params.zmax).
ZMins == {0}
ZMaxs == {2}
\* Free flight lengths the collision sampler may return.
FreePaths == {1}
\* Electronic energy losses of one free flight.
ELosses == {1}
\* Energies a collision may transfer to the recoil.
Transfers == {0, 1}
\* Unit directions the scattering kernel may return.
Dirs == {<<0, 0, 1>>, <<1, 0, 0>>, <<0, 0, -1>>}

VARIABLES
    cython_available,    \* simulation._cython_available
    parallel_available,  \* simulation._parallel_available
    using_cython,        \* simulation._using_cython
    use_parallel,        \* simulation._use_parallel
    simulation_parallel, \* simulation.simulation_parallel is not None
    params,              \* TRIMSimulation.params
    callback,            \* TRIMSimulation._progress_callback is not None
    should_stop,         \* TRIMSimulation._should_stop
    results,             \* TRIMSimulation.results
    pc,                  \* where the thread executing run() stands
    args,                \* run()'s arguments
    i,                   \* run()'s loop variable
    ion,                 \* the locals of the trajectory in flight
    worker,              \* the locals of run_parallel_simulation
    progress,            \* the calls the progress callback has received
    started,             \* trajectories started by this run (history)
    recorded,            \* the ion index of every stored trace (history)
    faces,               \* the faces crossed by the ions that left (history)
    global_geometry,     \* geometry3d._global_geometry
    probe,               \* the last call made outside run() and its result
    pos_init,            \* run()'s local array pos_init
    dir_init,            \* run()'s local array dir_init
    cascade,             \* a RecoilCascadeSimulator object
    stop_at              \* where run() stood at the first stop() (history)

vars == <<cython_available, parallel_available, using_cython, use_parallel,
          simulation_parallel, params, callback, should_stop, results, pc,
          args, i, ion, worker, progress, started, recorded, faces,
          global_geometry, probe, pos_init, dir_init, cascade, stop_at>>

modvars == <<cython_available, parallel_available, using_cython,
             use_parallel, simulation_parallel>>

geovars == <<global_geometry, probe>>

initvars == <<pos_init, dir_init>>

sidevars == <<cascade, stop_at>>

\* ------------------------------------------------------------- containers
\* No ion has left the target.
NoFaces == [front |-> 0, back |-> 0, side |-> 0]

\* No call made yet.
NoProbe == [op |-> "none"]

\* Python's None as a returned value.
None == [none |-> TRUE]

\* run() has not created its local arrays yet.
NoArray == <<>>

\* No RecoilCascadeSimulator object constructed.
NoCascade == [Ed |-> 0, max_cascade_depth |-> 0, E_min |-> 0,
              vacancies |-> <<>>, recoil_events |-> <<>>]

\* SimulationResults.__init__
NewResults ==
    [count_inside |-> 0, total_ions |-> 0,
     mean_x |-> 0, mean_y |-> 0, mean_z |-> 0, mean_r |-> 0,
     std_x |-> 0, std_y |-> 0, std_z |-> 0, std_r |-> 0,
     stopped_depths |-> <<>>, stopped_positions |-> <<>>,
     trajectories |-> <<>>]

\* SimulationResults.stopped
Stopped(r) == r.count_inside

\* SimulationResults.backscattered
Backscattered(r) == 0

\* SimulationResults.transmitted
Transmitted(r) == r.total_ions - r.count_inside

\* No trajectory in flight.
NoIon ==
    [pos |-> <<0, 0, 0>>, dir |-> <<0, 0, 0>>, e |-> 0, is_inside |-> TRUE,
     record_path |-> FALSE, path |-> <<>>]

\* run_parallel_simulation before its first ion.
NoWorker ==
    [n |-> 0, count_inside |-> 0, stopped_positions |-> <<>>,
     stopped_depths |-> <<>>, trajectories |-> <<>>]

\* -------------------------------------------------------------- geometry3d
\* Coordinates of geometry objects and of probed points are whole numbers,
\* which Python's floats represent exactly.

\* geometry3d._global_geometry = None, and the module fallback of geometry.py
NoGeometry == [type |-> "none"]

\* PlanarGeometry.__init__
PlanarGeometry(z_min, z_max) ==
    [type |-> "planar", z_min |-> z_min, z_max |-> z_max]

\* BoxGeometry.__init__
BoxGeometry(x_min, x_max, y_min, y_max, z_min, z_max) ==
    [type |-> "box", x_min |-> x_min, x_max |-> x_max, y_min |-> y_min,
     y_max |-> y_max, z_min |-> z_min, z_max |-> z_max]

\* CylinderGeometry.__init__
CylinderGeometry(radius, z_min, z_max, center_x, center_y) ==
    [type |-> "cylinder", radius |-> radius, radius_sq |-> radius * radius,
     z_min |-> z_min, z_max |-> z_max,
     center_x |-> center_x, center_y |-> center_y]

\* SphereGeometry.__init__
SphereGeometry(radius, center_x, center_y, center_z) ==
    [type |-> "sphere", radius |-> radius, radius_sq |-> radius * radius,
     center |-> <<center_x, center_y, center_z>>]

\* sorted(): insertion of x into the ascending sequence s
RECURSIVE Insert(_, _)
Insert(x, s) ==
    IF s = <<>> THEN <<x>>
    ELSE IF x <= Head(s) THEN <<x>> \o s
    ELSE <<Head(s)>> \o Insert(x, Tail(s))

\* sorted(layer_z_positions)
RECURSIVE sorted(_)
sorted(s) == IF s = <<>> THEN <<>> ELSE Insert(Head(s), sorted(Tail(s)))

\* MultiLayerGeometry.__init__ with explicit lateral bounds
MultiLayerGeometry(layer_z_positions, x_min, x_max, y_min, y_max) ==
    LET layer_z == sorted(layer_z_positions)
    IN  [type |-> "multilayer", layer_z |-> layer_z,
         z_min |-> layer_z[1], z_max |-> layer_z[Len(layer_z)],
         x_min |-> x_min, x_max |-> x_max, y_min |-> y_min, y_max |-> y_max]

\* PlanarGeometry.is_inside_target
PlanarInside(g, pos) == g.z_min <= pos[3] /\ pos[3] <= g.z_max

\* BoxGeometry.is_inside_target
BoxInside(g, pos) ==
    /\ g.x_min <= pos[1] /\ pos[1] <= g.x_max
    /\ g.y_min <= pos[2] /\ pos[2] <= g.y_max
    /\ g.z_min <= pos[3] /\ pos[3] <= g.z_max

\* CylinderGeometry.is_inside_target
CylinderInside(g, pos) ==
    IF ~(g.z_min <= pos[3] /\ pos[3] <= g.z_max) THEN FALSE
    ELSE LET dx == pos[1] - g.center_x
             dy == pos[2] - g.center_y
         IN  dx * dx + dy * dy <= g.radius_sq

\* SphereGeometry.is_inside_target
SphereInside(g, pos) ==
    LET diff == [k \in 1..3 |-> pos[k] - g.center[k]]
    IN  diff[1] * diff[1] + diff[2] * diff[2] + diff[3] * diff[3]
            <= g.radius_sq

\* MultiLayerGeometry.is_inside_target
MultiLayerInside(g, pos) ==
    IF ~(/\ g.x_min <= pos[1] /\ pos[1] <= g.x_max
         /\ g.y_min <= pos[2] /\ pos[2] <= g.y_max)
    THEN FALSE
    ELSE g.z_min <= pos[3] /\ pos[3] <= g.z_max

\* The method is_inside_target of the geometry object g.
Inside(g, pos) ==
    CASE g.type = "planar"     -> PlanarInside(g, pos)
      [] g.type = "box"        -> BoxInside(g, pos)
      [] g.type = "cylinder"   -> CylinderInside(g, pos)
      [] g.type = "sphere"     -> SphereInside(g, pos)
      [] g.type = "multilayer" -> MultiLayerInside(g, pos)

\* The method get_bounds of the geometry object g:
\* <<<<x_min, x_max>>, <<y_min, y_max>>, <<z_min, z_max>>>>.
get_bounds(g) ==
    CASE g.type = "planar" ->
           <<<<-Large, Large>>, <<-Large, Large>>, <<g.z_min, g.z_max>>>>
      [] g.type \in {"box", "multilayer"} ->
           <<<<g.x_min, g.x_max>>, <<g.y_min, g.y_max>>,
             <<g.z_min, g.z_max>>>>
      [] g.type = "cylinder" ->
           <<<<g.center_x - g.radius, g.center_x + g.radius>>,
             <<g.center_y - g.radius, g.center_y + g.radius>>,
             <<g.z_min, g.z_max>>>>
      [] g.type = "sphere" ->
           [k \in 1..3 |-> <<g.center[k] - g.radius, g.center[k] + g.radius>>]

\* Fault model: the final boundary belongs to no layer.
AtLastBoundaryOutside(g, z) == -1

\* get_layer_index, lines 255..259: z is in no half-open interval.
AtLastBoundary(g, z) == IF z = g.z_max THEN Len(g.layer_z) - 2 ELSE -1

\* get_layer_index, lines 251..253: the first i >= k with
\* layer_z[i] <= z < layer_z[i + 1], in the 0-based numbering of the code.
RECURSIVE LayerFrom(_, _, _)
LayerFrom(g, z, k) ==
    IF k >= Len(g.layer_z) - 1 THEN AtLastBoundary(g, z)
    ELSE IF g.layer_z[k + 1] <= z /\ z < g.layer_z[k + 2] THEN k
    ELSE LayerFrom(g, z, k + 1)

\* MultiLayerGeometry.get_layer_index
get_layer_index(g, z) ==
    IF z < g.z_min \/ z > g.z_max THEN -1 ELSE LayerFrom(g, z, 0)

\* str.lower() on the geometry tags a configuration may carry.
lower(tag) ==
    CASE tag = "Planar" -> "planar"
      [] tag = "BOX"    -> "box"
      [] OTHER          -> tag

\* create_geometry(geometry_type, **p): ok is FALSE when it raises ValueError.
create_geometry(geometry_type, p) ==
    LET t == lower(geometry_type)
    IN  CASE t = "box" ->
               [ok |-> TRUE,
                obj |-> BoxGeometry(p.x_min, p.x_max, p.y_min, p.y_max,
                                    p.z_min, p.z_max)]
          [] t = "cylinder" ->
               [ok |-> TRUE,
                obj |-> CylinderGeometry(p.radius, p.z_min, p.z_max,
                                         p.center_x, p.center_y)]
          [] t = "sphere" ->
               [ok |-> TRUE,
                obj |-> SphereGeometry(p.radius, p.center_x, p.center_y,
                                       p.center_z)]
          [] t = "multilayer" ->
               [ok |-> TRUE,
                obj |-> MultiLayerGeometry(p.layer_z_positions, p.x_min,
                                           p.x_max, p.y_min, p.y_max)]
          [] t = "planar" ->
               [ok |-> TRUE, obj |-> PlanarGeometry(p.z_min, p.z_max)]
          [] OTHER -> [ok |-> FALSE, obj |-> NoGeometry]

\* ---------------------------------------------------------------- geometry
\* geometry.is_inside_target: the global geometry object decides; without
\* one, the module's own slab ZMIN <= z <= ZMAX.
is_inside_target(pos) ==
    IF global_geometry # NoGeometry THEN Inside(global_geometry, pos)
    ELSE ZMIN <= pos[3] /\ pos[3] <= ZMAX

\* --------------------------------------------------------------- trajectory
\* One entry of a recorded path: pytrim/trajectory.py appends pos.copy().
PyTraceEntry(pos, e) == pos

\* One entry of a recorded path of the compiled trajectory module.
CyTraceEntry(pos, e) == pos \o <<e>>

TraceEntry(pos, e) ==
    IF using_cython THEN CyTraceEntry(pos, e) ELSE PyTraceEntry(pos, e)

\* trajectory_with_path, lines 78..83: the locals before the first step.
StartIon(record_path) ==
    [pos |-> pos_init, dir |-> dir_init, e |-> params.e_init,
     is_inside |-> TRUE, record_path |-> record_path,
     path |-> IF record_path
              THEN <<TraceEntry(pos_init, params.e_init)>>
              ELSE <<>>]

\* Fault model: pos is the array pos_init itself, so the += of line 89
\* writes through to it.
AfterAdvanceAliased(origin, pos1) == pos1

\* The array origin handed to trajectory_with_path, after pos, made from it
\* with origin.copy() (line 78), was advanced in place to pos1 (line 89).
AfterAdvance(origin, pos1) == origin

\* Fault model: the position is recorded before it is advanced.
StepPathBeforeAdvance(path, pos0, pos1, e) == Append(path, TraceEntry(pos0, e))

\* The path after one more step from pos0 to pos1 (lines 89..92).
StepPath(path, pos0, pos1, e) == Append(path, TraceEntry(pos1, e))

\* Where the thread goes when trajectory_with_path returns.
AfterTraj(p) == IF p = "traj" THEN "ion_ret" ELSE "par_ret"

\* The while loop's condition (line 85).
Flying(e) == e > EMIN

\* One iteration of the while loop of trajectory_with_path (lines 85..97):
\* free flight, electronic loss, advance, record, containment test, collision.
\* The compiled trajectory module is taken to step in the same way.
TrajStep ==
    /\ pc \in {"traj", "par_traj"}
    /\ Flying(ion.e)
    /\ \E free_path \in FreePaths, dee \in ELosses, t \in Transfers,
          d \in Dirs :
         LET e1   == ion.e - dee
             pos1 == [k \in 1..3 |-> ion.pos[k] + free_path * ion.dir[k]]
             p1   == IF ion.record_path
                     THEN StepPath(ion.path, ion.pos, pos1, e1)
                     ELSE ion.path
         IN  /\ IF ~is_inside_target(pos1)
                THEN /\ ion' = [ion EXCEPT !.e = e1, !.pos = pos1,
                                           !.path = p1, !.is_inside = FALSE]
                     /\ pc' = AfterTraj(pc)
                ELSE /\ ion' = [ion EXCEPT !.e = e1 - t, !.pos = pos1,
                                           !.path = p1, !.dir = d]
                     /\ pc' = pc
             /\ pos_init' = AfterAdvance(pos_init, pos1)
    /\ UNCHANGED <<modvars, geovars, faces, params, dir_init, sidevars,
                   callback, should_stop, results, args, i, worker, progress,
                   started, recorded>>

\* The while loop ends because the energy is spent (line 85, then line 99).
TrajEnd ==
    /\ pc \in {"traj", "par_traj"}
    /\ ~Flying(ion.e)
    /\ pc' = AfterTraj(pc)
    /\ UNCHANGED <<modvars, geovars, faces, params, initvars, sidevars,
                   callback, should_stop, results, args, i, ion, worker,
                   progress, started, recorded>>

\* ------------------------------------------------------------- module state
\* _load_cython_modules
LoadCython ==
    /\ simulation_parallel' = parallel_available
    /\ using_cython' = TRUE

\* Fault model: the Python modules are loaded but the flag is left as it was.
LoadPythonKeepsFlag ==
    /\ simulation_parallel' = FALSE
    /\ UNCHANGED using_cython

\* _load_python_modules
LoadPython ==
    /\ simulation_parallel' = FALSE
    /\ using_cython' = FALSE

\* is_using_cython() (lines 149..155)
is_using_cython == using_cython

\* is_using_parallel() (lines 165..171)
is_using_parallel == use_parallel

\* The value set_use_cython(use_cython) returns (lines 99..112).
SetUseCythonReturns(use_cython) ==
    IF use_cython THEN cython_available ELSE TRUE

\* set_use_cython(use_cython), called between runs (the front end disables
\* the toggle while a simulation runs)
SetUseCython(use_cython) ==
    /\ pc = "idle"
    /\ IF use_cython
       THEN IF cython_available THEN LoadCython
            ELSE UNCHANGED <<simulation_parallel, using_cython>>
       ELSE LoadPython
    /\ UNCHANGED <<cython_available, parallel_available, use_parallel, geovars,
                   faces, params, initvars, sidevars, callback, should_stop,
                   results, pc, args, i, ion, worker, progress, started,
                   recorded>>

\* set_use_parallel(use_parallel), called between runs
SetUseParallel(flag) ==
    /\ pc = "idle"
    /\ IF flag
       THEN IF parallel_available /\ using_cython THEN use_parallel' = TRUE
            ELSE UNCHANGED use_parallel
       ELSE use_parallel' = FALSE
    /\ UNCHANGED <<cython_available, parallel_available, using_cython,
                   simulation_parallel, geovars, faces, params, initvars,
                   sidevars, callback, should_stop, results, pc, args, i, ion,
                   worker, progress, started, recorded>>

\* ---------------------------------------------------------- TRIMSimulation
\* set_progress_callback(callback) with a callback that logs its arguments
SetProgressCallback ==
    /\ pc = "idle"
    /\ callback' = TRUE
    /\ UNCHANGED <<modvars, geovars, faces, params, initvars, sidevars,
                   should_stop, results, pc, args, i, ion, worker, progress,
                   started, recorded>>

\* stop(), from any thread at any time
Stop ==
    /\ should_stop' = TRUE
    /\ UNCHANGED <<modvars, geovars, faces, params, initvars, sidevars,
                   callback, results, pc, args, i, ion, worker, progress,
                   started, recorded>>

\* A thread calls run(record_trajectories, max_trajectories).
RunCall ==
    /\ pc = "idle"
    /\ \E rec \in BOOLEAN, mt \in 0..MaxTraj :
         args' = [record_trajectories |-> rec, max_trajectories |-> mt]
    /\ pc' = "entered"
    /\ UNCHANGED <<modvars, geovars, faces, params, initvars, sidevars,
                   callback, should_stop, results, i, ion, worker, progress,
                   started, recorded>>

\* run(), line 394
RunReset ==
    /\ pc = "entered"
    /\ should_stop' = FALSE
    /\ pc' = "setup"
    /\ UNCHANGED <<modvars, geovars, faces, params, initvars, sidevars,
                   callback, results, args, i, ion, worker, progress, started,
                   recorded>>

\* Fault model: the parallel path is taken whatever the geometry.
UseParallelPathAnyGeometry == use_parallel /\ simulation_parallel

\* The condition of line 408.
UseParallelPath ==
    use_parallel /\ simulation_parallel /\ params.geometry_type = "planar"

\* Fault model: the error of an unknown tag is handled like the failed import
\* of lines 352..356, and the run goes on with the planar slab.
CreateGeometryLenient(prm) ==
    LET c == IF prm.geometry_type = "planar"
             THEN create_geometry("planar",
                                  [z_min |-> prm.zmin, z_max |-> prm.zmax])
             ELSE create_geometry(prm.geometry_type, prm.geometry_params)
    IN  IF c.ok THEN c
        ELSE create_geometry("planar",
                             [z_min |-> prm.zmin, z_max |-> prm.zmax])

\* TRIMSimulation._create_geometry for the parameters prm (geometry_params
\* carries no needs_z_bounds entry, and geometry3d is importable)
CreateGeometry(prm) ==
    IF prm.geometry_type = "planar"
    THEN create_geometry("planar", [z_min |-> prm.zmin, z_max |-> prm.zmax])
    ELSE create_geometry(prm.geometry_type, prm.geometry_params)

\* SimulationParameters.get_pos_init: a new array of the configured position
get_pos_init(prm) == prm.pos_init

\* SimulationParameters.get_dir_init: a new array of the configured direction
get_dir_init(prm) == prm.dir_init

\* run(), lines 395..408 and 454..456: setup() with its geometry object made
\* the global one, fresh results, the local arrays, choice of path; or the
\* exception of create_geometry leaving run()
RunSetup ==
    /\ pc = "setup"
    /\ LET c == CreateGeometry(params)
       IN  IF c.ok
           THEN /\ global_geometry' = c.obj
                /\ results' = [NewResults EXCEPT !.total_ions = params.nion]
                /\ pos_init' = get_pos_init(params)
                /\ dir_init' = get_dir_init(params)
                /\ i' = 0
                /\ pc' = IF UseParallelPath THEN "par_loop" ELSE "loop"
           ELSE /\ pc' = "setup_raised"
                /\ UNCHANGED <<global_geometry, results, initvars, i>>
    /\ UNCHANGED <<modvars, probe, faces, params, sidevars, callback,
                   should_stop, args, ion, worker, progress, started,
                   recorded>>

\* Fault model: the loop head does not look at the stop flag.
ShouldBreakIgnored == FALSE

\* The test of lines 460..461.
ShouldBreak == should_stop

\* Fault model: one trace too many is recorded.
RecordThisOffByOne(k) ==
    args.record_trajectories /\ k <= args.max_trajectories

\* record_path of line 465, and the guard of line 488
RecordThis(k) == args.record_trajectories /\ k < args.max_trajectories

\* run(), lines 459..466: the head of the sequential loop
LoopCheck ==
    /\ pc = "loop"
    /\ IF i >= params.nion \/ ShouldBreak
       THEN /\ pc' = "finalize"
            /\ UNCHANGED <<ion, started>>
       ELSE /\ ion' = StartIon(RecordThis(i))
            /\ started' = started + 1
            /\ pc' = "traj"
    /\ UNCHANGED <<modvars, geovars, faces, params, initvars, sidevars,
                   callback, should_stop, results, args, i, worker, progress,
                   recorded>>

\* The radial distance of lines 443 and 484.
Radial(x, y) == FSqrt(FAdd(FMul(x, x), FMul(y, y)))

\* run(), lines 468..486: the accumulation for an ion stopped inside
SeqAccumulate(r, pos) ==
    LET x  == FromInt(pos[1])
        y  == FromInt(pos[2])
        z  == FromInt(pos[3])
        rr == Radial(x, y)
    IN  [r EXCEPT !.count_inside = @ + 1,
                  !.mean_z = FAdd(@, z), !.std_z = FAdd(@, FMul(z, z)),
                  !.stopped_depths = Append(@, pos[3]),
                  !.stopped_positions = Append(@, pos),
                  !.mean_x = FAdd(@, x), !.mean_y = FAdd(@, y),
                  !.std_x = FAdd(@, FMul(x, x)), !.std_y = FAdd(@, FMul(y, y)),
                  !.mean_r = FAdd(@, rr), !.std_r = FAdd(@, FMul(rr, rr))]

\* Fault model: the loop index is reported instead of the completed count.
ProgressArgsZeroBased(k) == <<k, params.nion>>

\* The arguments of the progress call of line 493.
ProgressArgs(k) == <<k + 1, params.nion>>

\* The face through which an ion now at pos left the target: "front" below
\* the z-range of the geometry, "back" above it, "side" when z does not tell.
CrossedFace(pos) ==
    LET zb == get_bounds(global_geometry)[3]
    IN  IF pos[3] < zb[1] THEN "front"
        ELSE IF pos[3] > zb[2] THEN "back"
        ELSE "side"

\* The history of crossed faces after the trajectory in ion returned.
FacesAfter ==
    IF ion.is_inside THEN faces
    ELSE [faces EXCEPT ![CrossedFace(ion.pos)] = @ + 1]

\* run(), lines 468..493: the rest of the loop body after the trajectory
IonDone ==
    /\ pc = "ion_ret"
    /\ faces' = FacesAfter
    /\ LET r1 == IF ion.is_inside THEN SeqAccumulate(results, ion.pos)
                 ELSE results
       IN  results' = IF RecordThis(i) /\ ion.record_path
                      THEN [r1 EXCEPT !.trajectories = Append(@, ion.path)]
                      ELSE r1
    /\ progress' = IF callback THEN Append(progress, ProgressArgs(i))
                   ELSE progress
    /\ recorded' = IF RecordThis(i) /\ ion.record_path
                   THEN Append(recorded, i) ELSE recorded
    /\ i' = i + 1
    /\ ion' = NoIon
    /\ pc' = "loop"
    /\ UNCHANGED <<modvars, geovars, params, initvars, sidevars, callback,
                   should_stop, args, worker, started>>

\* sumsq / n - mean**2 (lines 501, 506, 507, 511)
Variance(sumsq, n, mean) == FSub(FDiv(sumsq, n), FMul(mean, mean))

\* Fault model: the statistics are finalized also for an empty sample.
HasStoppedUnguarded(n) == n >= 0

\* The guard of line 496.
HasStopped(n) == n > 0

\* run(), lines 497..511: mean and standard deviation of z, x, y and r, in
\* the order of the code.  ok is FALSE when a statement raises
\* (ZeroDivisionError from / n, ValueError from math.sqrt of a negative
\* number); r then holds the assignments made before it.
FinalizeStats(r) ==
    LET n  == r.count_inside
        mz == FDiv(r.mean_z, n)
        vz == Variance(r.std_z, n, mz)
        r1 == [r EXCEPT !.mean_z = mz]
        mx == FDiv(r.mean_x, n)
        my == FDiv(r.mean_y, n)
        vx == Variance(r.std_x, n, mx)
        r2 == [r1 EXCEPT !.std_z = FSqrt(vz), !.mean_x = mx, !.mean_y = my]
        vy == Variance(r.std_y, n, my)
        r3 == [r2 EXCEPT !.std_x = FSqrt(vx)]
        mr == FDiv(r.mean_r, n)
        vr == Variance(r.std_r, n, mr)
        r4 == [r3 EXCEPT !.std_y = FSqrt(vy), !.mean_r = mr]
    IN  IF n = 0 THEN [ok |-> FALSE, r |-> r]
        ELSE IF vz < 0 THEN [ok |-> FALSE, r |-> r1]
        ELSE IF vx < 0 THEN [ok |-> FALSE, r |-> r2]
        ELSE IF vy < 0 THEN [ok |-> FALSE, r |-> r3]
        ELSE IF vr < 0 THEN [ok |-> FALSE, r |-> r4]
        ELSE [ok |-> TRUE, r |-> [r4 EXCEPT !.std_r = FSqrt(vr)]]

\* run(), lines 495..516: the statistics, then the return (or the exception)
Finalize ==
    /\ pc = "finalize"
    /\ IF HasStopped(results.count_inside)
       THEN LET f == FinalizeStats(results)
            IN  /\ results' = f.r
                /\ pc' = IF f.ok THEN "done" ELSE "raised"
       ELSE /\ pc' = "done"
            /\ UNCHANGED results
    /\ UNCHANGED <<modvars, geovars, faces, params, initvars, sidevars,
                   callback, should_stop, args, i, ion, worker, progress,
                   started, recorded>>

\* ------------------------------------------------------------ parallel path
\* run_parallel_simulation: the next ion of the pool, or the return once all
\* nion ions are simulated.  Its arguments (lines 420..424) give it neither
\* the simulation object nor its stop flag.
ParLoop ==
    /\ pc = "par_loop"
    /\ IF worker.n >= params.nion
       THEN /\ pc' = "par_store"
            /\ UNCHANGED <<ion, started>>
       ELSE /\ ion' = StartIon(RecordThis(worker.n))
            /\ started' = started + 1
            /\ pc' = "par_traj"
    /\ UNCHANGED <<modvars, geovars, faces, params, initvars, sidevars,
                   callback, should_stop, results, args, i, worker, progress,
                   recorded>>

\* run_parallel_simulation: an ion of the pool is complete; its stopped
\* position and its trace join the merged lists, progress is reported.
ParIonDone ==
    /\ pc = "par_ret"
    /\ faces' = FacesAfter
    /\ worker' =
         [n |-> worker.n + 1,
          count_inside |->
              IF ion.is_inside THEN worker.count_inside + 1
              ELSE worker.count_inside,
          stopped_positions |->
              IF ion.is_inside THEN Append(worker.stopped_positions, ion.pos)
              ELSE worker.stopped_positions,
          stopped_depths |->
              IF ion.is_inside THEN Append(worker.stopped_depths, ion.pos[3])
              ELSE worker.stopped_depths,
          trajectories |->
              IF ion.record_path THEN Append(worker.trajectories, ion.path)
              ELSE worker.trajectories]
    /\ progress' = IF callback
                   THEN Append(progress, <<worker.n + 1, params.nion>>)
                   ELSE progress
    /\ recorded' = IF ion.record_path THEN Append(recorded, worker.n)
                   ELSE recorded
    /\ ion' = NoIon
    /\ pc' = "par_loop"
    /\ UNCHANGED <<modvars, geovars, params, initvars, sidevars, callback,
                   should_stop, results, args, i, started>>

\* run(), lines 436..445: the sums over the stopped positions
RECURSIVE ParAccumulate(_, _)
ParAccumulate(r, ps) ==
    IF ps = <<>> THEN r
    ELSE LET x  == FromInt(Head(ps)[1])
             y  == FromInt(Head(ps)[2])
             z  == FromInt(Head(ps)[3])
             rr == Radial(x, y)
         IN  ParAccumulate(
                 [r EXCEPT !.mean_x = FAdd(@, x), !.mean_y = FAdd(@, y),
                           !.mean_z = FAdd(@, z),
                           !.std_x = FAdd(@, FMul(x, x)),
                           !.std_y = FAdd(@, FMul(y, y)),
                           !.std_z = FAdd(@, FMul(z, z)),
                           !.mean_r = FAdd(@, rr),
                           !.std_r = FAdd(@, FMul(rr, rr))],
                 Tail(ps))

\* run(), lines 426..451: what the parallel path leaves in the results
ParResults(r, w) ==
    LET r1 == [r EXCEPT
                 !.count_inside = w.count_inside,
                 !.stopped_positions = w.stopped_positions,
                 !.stopped_depths = w.stopped_depths,
                 !.trajectories = w.trajectories]
    IN  IF w.count_inside > 0 THEN ParAccumulate(r1, w.stopped_positions)
        ELSE r1

\* run(), lines 419..451: run_parallel_simulation returns, the results are
\* stored and run() returns early
ParStore ==
    /\ pc = "par_store"
    /\ results' = ParResults(results, worker)
    /\ pc' = "done"
    /\ UNCHANGED <<modvars, geovars, faces, params, initvars, sidevars,
                   callback, should_stop, args, i, ion, worker, progress,
                   started, recorded>>

\* ------------------------------------------------------------ specification
\* The module is imported (lines 24..46 and 173..182), the parameters are
\* filled in and TRIMSimulation(params) is constructed (lines 306..315).
Init ==
    /\ cython_available \in BOOLEAN
    /\ parallel_available \in BOOLEAN
    /\ using_cython = cython_available
    /\ simulation_parallel = (cython_available /\ parallel_available)
    /\ use_parallel = FALSE
    /\ params \in [nion : 0..MaxIons, zmin : ZMins, zmax : ZMaxs,
                   e_init : EInits,
                   pos_init : PosInits, dir_init : {<<0, 0, 1>>},
                   geometry_type : {"planar"}, geometry_params : {<<>>}]
    /\ callback = FALSE
    /\ should_stop = FALSE
    /\ results = NewResults
    /\ pc = "idle"
    /\ args = [record_trajectories |-> FALSE, max_trajectories |-> 0]
    /\ i = 0
    /\ ion = NoIon
    /\ worker = NoWorker
    /\ progress = <<>>
    /\ started = 0
    /\ recorded = <<>>
    /\ faces = NoFaces
    /\ global_geometry = NoGeometry
    /\ probe = NoProbe
    /\ pos_init = NoArray
    /\ dir_init = NoArray
    /\ cascade = NoCascade
    /\ stop_at = "none"

Next ==
    \/ \E f \in BOOLEAN : SetUseCython(f)
    \/ \E f \in BOOLEAN : SetUseParallel(f)
    \/ SetProgressCallback
    \/ Stop
    \/ RunCall
    \/ RunReset
    \/ RunSetup
    \/ LoopCheck
    \/ TrajStep
    \/ TrajEnd
    \/ IonDone
    \/ Finalize
    \/ ParLoop
    \/ ParIonDone
    \/ ParStore

Spec == Init /\ [][Next]_vars

\* ------------------------------------------- runs over all configurations
\* geometry_params of a box between the faces z_min and z_max.
BoxParams(z_min, z_max) ==
    [x_min |-> -1, x_max |-> 1, y_min |-> -1, y_max |-> 1,
     z_min |-> z_min, z_max |-> z_max]

\* geometry_params of a cylinder of the given radius around the z axis.
CylinderParams(radius) ==
    [radius |-> radius, z_min |-> 0, z_max |-> 2,
     center_x |-> 0, center_y |-> 0]

\* The geometry part of a configuration: well-formed ones of every type,
\* tags in other letter case, an unknown tag, inverted bounds and
\* non-positive radii.
GeoChoices ==
    { [geometry_type |-> "planar", geometry_params |-> <<>>,
       zmin |-> 0, zmax |-> 2],
      [geometry_type |-> "planar", geometry_params |-> <<>>,
       zmin |-> 2, zmax |-> 0],
      [geometry_type |-> "Planar",
       geometry_params |-> [z_min |-> 0, z_max |-> 2],
       zmin |-> 0, zmax |-> 2],
      [geometry_type |-> "box", geometry_params |-> BoxParams(0, 2),
       zmin |-> 0, zmax |-> 2],
      [geometry_type |-> "BOX", geometry_params |-> BoxParams(0, 2),
       zmin |-> 0, zmax |-> 2],
      [geometry_type |-> "box", geometry_params |-> BoxParams(2, 0),
       zmin |-> 0, zmax |-> 2],
      [geometry_type |-> "cylinder", geometry_params |-> CylinderParams(1),
       zmin |-> 0, zmax |-> 2],
      [geometry_type |-> "cylinder", geometry_params |-> CylinderParams(0),
       zmin |-> 0, zmax |-> 2],
      [geometry_type |-> "cylinder", geometry_params |-> CylinderParams(-1),
       zmin |-> 0, zmax |-> 2],
      [geometry_type |-> "sphere",
       geometry_params |-> [radius |-> 1, center_x |-> 0, center_y |-> 0,
                            center_z |-> 1],
       zmin |-> 0, zmax |-> 2],
      [geometry_type |-> "multilayer",
       geometry_params |-> [layer_z_positions |-> <<2, 0, 1>>,
                            x_min |-> -1, x_max |-> 1,
                            y_min |-> -1, y_max |-> 1],
       zmin |-> 0, zmax |-> 2],
      [geometry_type |-> "torus", geometry_params |-> <<>>,
       zmin |-> 0, zmax |-> 2] }

\* Largest ion count of a configuration of SpecConfigs.
MaxCfgIons == 2

\* Initial directions (params.dir_x, dir_y, dir_z), the zero vector included.
DirInits == {<<0, 0, 1>>, <<0, 0, -1>>, <<0, 0, 0>>}

\* SimulationParameters filled in with the geometry choice c.
ParamsOf(nion, direction, c) ==
    [nion |-> nion, zmin |-> c.zmin, zmax |-> c.zmax, e_init |-> EMIN + 2,
     pos_init |-> <<0, 0, 1>>, dir_init |-> direction,
     geometry_type |-> c.geometry_type,
     geometry_params |-> c.geometry_params]

\* Initial positions (params.x_init, y_init, z_init) of the configurations
\* whose ions start with no energy to spend: in front of the slab and in it.
SpentPosInits == {<<0, 0, -1>>, <<0, 0, 1>>}

\* Configurations with e_init = EMIN (SimulationParameters takes any value,
\* lines 218..221): one ion towards the plain slab.
SpentConfigs ==
    {[ParamsOf(1, <<0, 0, 1>>, CHOOSE c \in GeoChoices :
                                   /\ c.geometry_type = "planar"
                                   /\ c.zmin <= c.zmax)
         EXCEPT !.e_init = EMIN, !.pos_init = p] : p \in SpentPosInits}

\* The configurations: every geometry choice with every initial direction
\* for one ion, the plain slab with more ions, and the ions with no energy
\* to spend.
Configs ==
    {ParamsOf(1, d, c) : d \in DirInits, c \in GeoChoices}
        \cup {ParamsOf(n, d, CHOOSE c \in GeoChoices :
                                 /\ c.geometry_type = "planar"
                                 /\ c.zmin <= c.zmax) :
                  n \in 0..MaxCfgIons, d \in DirInits}
        \cup SpentConfigs

\* The parameters of a second TRIMSimulation object of the same process.
OtherParams ==
    {ParamsOf(1, <<0, 0, 1>>, c) :
         c \in {[geometry_type |-> "planar", geometry_params |-> <<>>,
                 zmin |-> 5, zmax |-> 6]}}

\* setup() of a second TRIMSimulation object (lines 358..382, through its own
\* run() or directly): its geometry object becomes the global one.
OtherSetup ==
    /\ \E prm \in OtherParams :
         LET c == CreateGeometry(prm)
         IN  /\ c.ok
             /\ global_geometry' = c.obj
    /\ UNCHANGED <<modvars, probe, faces, params, initvars, sidevars, callback,
                   should_stop, results, pc, args, i, ion, worker, progress,
                   started, recorded>>

\* An exception raised by the collision kernel inside the while loop of
\* trajectory_with_path (lines 86..97) leaves the trajectory; the loop of
\* run() (lines 459..493) has no handler, so it leaves run() as well.
TrajRaise ==
    /\ pc = "traj"
    /\ Flying(ion.e)
    /\ pc' = "aborted"
    /\ UNCHANGED <<modvars, geovars, faces, params, initvars, sidevars,
                   callback, should_stop, results, args, i, ion, worker,
                   progress, started, recorded>>

\* The module is imported, with or without the compiled modules built, and
\* TRIMSimulation(params) is constructed for any of the configurations.
InitConfigs ==
    /\ cython_available \in BOOLEAN
    /\ parallel_available = cython_available
    /\ using_cython = cython_available
    /\ simulation_parallel = (cython_available /\ parallel_available)
    /\ use_parallel = FALSE
    /\ params \in Configs
    /\ callback = FALSE
    /\ should_stop = FALSE
    /\ results = NewResults
    /\ pc = "idle"
    /\ args = [record_trajectories |-> FALSE, max_trajectories |-> 0]
    /\ i = 0
    /\ ion = NoIon
    /\ worker = NoWorker
    /\ progress = <<>>
    /\ started = 0
    /\ recorded = <<>>
    /\ faces = NoFaces
    /\ global_geometry = NoGeometry
    /\ probe = NoProbe
    /\ pos_init = NoArray
    /\ dir_init = NoArray
    /\ cascade = NoCascade
    /\ stop_at = "none"

NextConfigs ==
    \/ \E f \in BOOLEAN : SetUseCython(f)
    \/ \E f \in BOOLEAN : SetUseParallel(f)
    \/ RunCall
    \/ RunReset
    \/ RunSetup
    \/ LoopCheck
    \/ TrajStep
    \/ TrajEnd
    \/ TrajRaise
    \/ IonDone
    \/ Finalize
    \/ ParLoop
    \/ ParIonDone
    \/ ParStore
    \/ OtherSetup

SpecConfigs == InitConfigs /\ [][NextConfigs]_vars

\* ------------------------------------------------ geometry objects alone
\* Largest coordinate of a face, a centre or a layer boundary.
MaxCoord == 1

\* Coordinates of faces, centres and layer boundaries.
GeoCoords == -1..MaxCoord

\* The intervals <<min, max>> with min <= max.
Ranges == {rg \in GeoCoords \X GeoCoords : rg[1] <= rg[2]}

\* Radii of cylinders and spheres.
Radii == {1, 2}

\* The lists of two or three layer boundaries, in any order.
LayerLists ==
    {<<a, b>> : a \in GeoCoords, b \in GeoCoords}
        \cup {<<a, b, c>> : a \in GeoCoords, b \in GeoCoords,
                            c \in GeoCoords}

\* Well-formed geometry objects of every class.
TestGeometries ==
    {PlanarGeometry(zr[1], zr[2]) : zr \in Ranges}
        \cup {BoxGeometry(xr[1], xr[2], -1, 1, zr[1], zr[2]) :
                  xr \in Ranges, zr \in Ranges}
        \cup {CylinderGeometry(rad, zr[1], zr[2], cx, 0) :
                  rad \in Radii, zr \in Ranges, cx \in {0, 1}}
        \cup {SphereGeometry(rad, cx, 0, cz) :
                  rad \in Radii, cx \in {0, 1}, cz \in {0, 1}}
        \cup {MultiLayerGeometry(ls, -1, 1, -1, 1) : ls \in LayerLists}

\* Coordinates of probed points: around the objects, and beyond the lateral
\* extent PlanarGeometry.get_bounds reports.
ProbeCoords == {-(Large + 1), Large + 1} \cup (-(MaxCoord + 2)..(MaxCoord + 2))

\* The points to probe.
ProbePoints == ProbeCoords \X ProbeCoords \X ProbeCoords

\* is_inside_target(pos) and get_global_geometry().get_bounds() for the
\* point drawn
ProbePoint ==
    /\ probe.op = "input"
    /\ probe' = [op |-> "point", pos |-> probe.pos,
                 inside |-> is_inside_target(probe.pos),
                 bounds |-> get_bounds(global_geometry)]
    /\ UNCHANGED <<modvars, global_geometry, faces, params, initvars, sidevars,
                   callback, should_stop, results, pc, args, i, ion, worker,
                   progress, started, recorded>>

\* get_layer_index(z) for the depth of the point drawn, and is_inside_target
\* at a point of that depth within the lateral bounds
ProbeLayer ==
    /\ probe.op = "input"
    /\ global_geometry.type = "multilayer"
    /\ probe' = [op |-> "layer", z |-> probe.pos[3],
                 index |-> get_layer_index(global_geometry, probe.pos[3]),
                 inside |-> is_inside_target(
                     <<global_geometry.x_min, global_geometry.y_min,
                       probe.pos[3]>>)]
    /\ UNCHANGED <<modvars, global_geometry, faces, params, initvars, sidevars,
                   callback, should_stop, results, pc, args, i, ion, worker,
                   progress, started, recorded>>

\* A geometry object is constructed and made the global one with
\* setup_geometry; a point is drawn; no simulation runs.
InitGeometry ==
    /\ cython_available = FALSE
    /\ parallel_available = FALSE
    /\ using_cython = FALSE
    /\ simulation_parallel = FALSE
    /\ use_parallel = FALSE
    /\ params = ParamsOf(0, <<0, 0, 1>>,
                         [geometry_type |-> "planar", geometry_params |-> <<>>,
                          zmin |-> 0, zmax |-> 2])
    /\ callback = FALSE
    /\ should_stop = FALSE
    /\ results = NewResults
    /\ pc = "idle"
    /\ args = [record_trajectories |-> FALSE, max_trajectories |-> 0]
    /\ i = 0
    /\ ion = NoIon
    /\ worker = NoWorker
    /\ progress = <<>>
    /\ started = 0
    /\ recorded = <<>>
    /\ faces = NoFaces
    /\ global_geometry \in TestGeometries
    /\ probe \in [op : {"input"}, pos : ProbePoints]
    /\ pos_init = NoArray
    /\ dir_init = NoArray
    /\ cascade = NoCascade
    /\ stop_at = "none"

NextGeometry ==
    \/ ProbePoint
    \/ ProbeLayer

SpecGeometry == InitGeometry /\ [][NextGeometry]_vars

\* ------------------------------------------------- ray-surface intersection
\* In this part a coordinate or a distance is a whole number of units of
\* 2^-9 Angstrom: the ten halvings of a marching step of 10 Angstrom stay
\* exact in these units, as they do in Python's floats.
Fine == 512

\* x Angstrom
Angstrom(x) == x * Fine

\* get_intersection: max_distance = 10000.0, step_size = 10.0, range(10)
max_distance == Angstrom(10000)
step_size == Angstrom(10)
Refinements == 10

\* np.inf as a returned distance.
inf == [inf |-> TRUE]

\* pos + direction * distance
RayPoint(pos, direction, distance) ==
    [k \in 1..3 |-> pos[k] + direction[k] * distance]

\* get_intersection, lines 72..77: the refinement between current_pos and
\* back_pos; n counts the iterations made.
RECURSIVE Refine(_, _, _, _, _)
Refine(g, current_pos, back_pos, is_inside, n) ==
    IF n >= Refinements THEN [current_pos |-> current_pos, n |-> n]
    ELSE LET mid_pos == [k \in 1..3 |->
                            (current_pos[k] + back_pos[k]) \div 2]
         IN  IF Inside(g, mid_pos) = is_inside
             THEN Refine(g, mid_pos, back_pos, is_inside, n + 1)
             ELSE Refine(g, current_pos, mid_pos, is_inside, n + 1)

\* Fault model: the sample at max_distance itself is still taken.
MarchingInclusive(distance) == distance <= max_distance

\* The condition of the while loop of line 64.
Marching(distance) == distance < max_distance

\* get_intersection, line 82: the values returned without a flip.
NoIntersection == [found |-> FALSE, point |-> None, distance |-> inf]

\* get_intersection, lines 69..78: the values returned after a flip at the
\* sample current_pos; back is the sample before it.
Intersection(g, pos, direction, distance, current_pos, is_inside) ==
    LET back_pos == RayPoint(pos, direction, distance - step_size)
        r        == Refine(g, current_pos, back_pos, is_inside, 0)
    IN  [found |-> TRUE, point |-> r.current_pos, distance |-> distance,
         back |-> back_pos, refinements |-> r.n]

\* Targets: slabs wider and narrower than a marching step, a box and a
\* stack of two layers (coordinates in Angstrom).
RayGeometries ==
    {PlanarGeometry(Angstrom(0), Angstrom(20)),
     PlanarGeometry(Angstrom(2), Angstrom(4)),
     PlanarGeometry(Angstrom(0), Angstrom(7)),
     BoxGeometry(Angstrom(-5), Angstrom(5), Angstrom(-5), Angstrom(5),
                 Angstrom(0), Angstrom(100)),
     MultiLayerGeometry(<<Angstrom(0), Angstrom(3), Angstrom(30)>>,
                        Angstrom(-5), Angstrom(5), Angstrom(-5),
                        Angstrom(5))}

\* Starting points in front of, inside and behind the targets, the farthest
\* ones about max_distance away (coordinates in Angstrom), on and off the
\* z axis.
RayStarts ==
    {<<Angstrom(x), 0, Angstrom(z)>> :
         x \in {0, 12},
         z \in {-10005, -9985, -15, -5, 1, 25, 105}}

\* Ray directions: unit vectors along the axes.
RayDirections == {<<0, 0, 1>>, <<0, 0, -1>>, <<1, 0, 0>>, <<-1, 0, 0>>}

\* get_intersection(pos, direction) is called on the global geometry object
\* for the ray drawn (lines 56..62)
RayCall ==
    /\ probe.op = "ray"
    /\ probe' = [op |-> "marching", pos |-> probe.pos, dir |-> probe.dir,
                 was_inside |-> Inside(global_geometry, probe.pos),
                 distance |-> 0, samples |-> 0]
    /\ UNCHANGED <<modvars, global_geometry, faces, params, initvars,
                   sidevars, callback, should_stop, results, pc, args, i, ion,
                   worker, progress, started, recorded>>

\* get_intersection, lines 64..82: the test of the while loop and one
\* iteration, or the return.  samples counts the iterations made.
MarchStep ==
    /\ probe.op = "marching"
    /\ IF ~Marching(probe.distance)
       THEN probe' = [op |-> "returned", pos |-> probe.pos,
                      dir |-> probe.dir, samples |-> probe.samples,
                      ret |-> NoIntersection]
       ELSE LET current_pos == RayPoint(probe.pos, probe.dir, probe.distance)
                is_inside   == Inside(global_geometry, current_pos)
            IN  IF probe.was_inside # is_inside
                THEN probe' = [op |-> "returned", pos |-> probe.pos,
                               dir |-> probe.dir,
                               samples |-> probe.samples + 1,
                               ret |-> Intersection(
                                   global_geometry, probe.pos, probe.dir,
                                   probe.distance, current_pos, is_inside)]
                ELSE probe' = [probe EXCEPT !.distance = @ + step_size,
                                            !.samples = @ + 1]
    /\ UNCHANGED <<modvars, global_geometry, faces, params, initvars,
                   sidevars, callback, should_stop, results, pc, args, i, ion,
                   worker, progress, started, recorded>>

\* A geometry object is constructed and made the global one; a ray is drawn.
InitRays ==
    /\ cython_available = FALSE
    /\ parallel_available = FALSE
    /\ using_cython = FALSE
    /\ simulation_parallel = FALSE
    /\ use_parallel = FALSE
    /\ params = ParamsOf(0, <<0, 0, 1>>,
                         [geometry_type |-> "planar", geometry_params |-> <<>>,
                          zmin |-> 0, zmax |-> 2])
    /\ callback = FALSE
    /\ should_stop = FALSE
    /\ results = NewResults
    /\ pc = "idle"
    /\ args = [record_trajectories |-> FALSE, max_trajectories |-> 0]
    /\ i = 0
    /\ ion = NoIon
    /\ worker = NoWorker
    /\ progress = <<>>
    /\ started = 0
    /\ recorded = <<>>
    /\ faces = NoFaces
    /\ global_geometry \in RayGeometries
    /\ probe \in [op : {"ray"}, pos : RayStarts, dir : RayDirections]
    /\ pos_init = NoArray
    /\ dir_init = NoArray
    /\ cascade = NoCascade
    /\ stop_at = "none"

NextRays ==
    \/ RayCall
    \/ MarchStep

SpecRays == InitRays /\ [][NextRays]_vars

\* ------------------------------------------------------ recoil cascades
\* Largest number of vacancies a RecoilCascadeSimulator collects.
MaxVacancies == 2

\* RecoilCascadeSimulator.__init__
RecoilCascadeSimulator(displacement_energy, max_cascade_depth, min_recoil_energy) ==
    [Ed |-> displacement_energy, max_cascade_depth |-> max_cascade_depth,
     E_min |-> min_recoil_energy, vacancies |-> <<>>, recoil_events |-> <<>>]

\* Fault model: an atom is displaced already at the threshold energy.
is_displacement_at_threshold(self, e_recoil) == e_recoil >= self.Ed

\* RecoilCascadeSimulator.is_displacement
is_displacement(self, e_recoil) == e_recoil > self.Ed

\* RecoilCascadeSimulator.is_trackable
is_trackable(self, e_recoil) == e_recoil > self.E_min

\* The dataclass RecoilEvent.
RecoilEvent(x, y, z, energy, direction, primary_energy, generation) ==
    [x |-> x, y |-> y, z |-> z, energy |-> energy, direction |-> direction,
     primary_energy |-> primary_energy, generation |-> generation]

\* RecoilCascadeSimulator.register_collision: the object afterwards (self)
\* and the value returned (ret).
register_collision(self, x, y, z, e_primary, e_recoil, recoil_direction, generation) ==
    IF is_displacement(self, e_recoil)
    THEN LET s1 == [self EXCEPT !.vacancies = Append(@, <<x, y, z>>)]
         IN  IF /\ is_trackable(self, e_recoil)
                /\ generation < self.max_cascade_depth
             THEN LET event == RecoilEvent(x, y, z, e_recoil,
                                           recoil_direction, e_primary,
                                           generation)
                  IN  [self |-> [s1 EXCEPT !.recoil_events = Append(@, event)],
                       ret |-> event]
             ELSE [self |-> s1, ret |-> None]
    ELSE [self |-> self, ret |-> None]

\* Displacement thresholds, tracking thresholds below and above them, and
\* cascade depth limits a simulator may be constructed with.
DisplacementEnergies == {2}
MinRecoilEnergies == {1, 3}
CascadeDepths == {1, 2}

\* Transferred energies, generations and positions of the collisions
\* registered: energies below, at and above both thresholds, generations
\* below, at and above the depth limits.
RecoilEnergies == 1..4
Generations == 0..2
CollisionSites == {<<0, 0, 1>>, <<1, 0, 2>>}

\* A call of register_collision on the simulator object
RegisterCollision(site, e_recoil, generation) ==
    /\ Len(cascade.vacancies) < MaxVacancies
    /\ LET c == register_collision(cascade, site[1], site[2], site[3],
                                   EMIN + 2, e_recoil, <<0, 0, 1>>,
                                   generation)
       IN  /\ cascade' = c.self
           /\ probe' = [op |-> "register_collision", ret |-> c.ret]
    /\ UNCHANGED <<modvars, global_geometry, faces, params, initvars,
                   stop_at, callback, should_stop, results, pc, args, i, ion,
                   worker, progress, started, recorded>>

\* A RecoilCascadeSimulator is constructed; no simulation runs.
InitRecoil ==
    /\ cython_available = FALSE
    /\ parallel_available = FALSE
    /\ using_cython = FALSE
    /\ simulation_parallel = FALSE
    /\ use_parallel = FALSE
    /\ params = ParamsOf(0, <<0, 0, 1>>,
                         [geometry_type |-> "planar", geometry_params |-> <<>>,
                          zmin |-> 0, zmax |-> 2])
    /\ callback = FALSE
    /\ should_stop = FALSE
    /\ results = NewResults
    /\ pc = "idle"
    /\ args = [record_trajectories |-> FALSE, max_trajectories |-> 0]
    /\ i = 0
    /\ ion = NoIon
    /\ worker = NoWorker
    /\ progress = <<>>
    /\ started = 0
    /\ recorded = <<>>
    /\ faces = NoFaces
    /\ global_geometry = NoGeometry
    /\ probe = NoProbe
    /\ pos_init = NoArray
    /\ dir_init = NoArray
    /\ cascade \in {RecoilCascadeSimulator(ed, depth, emin) :
                        ed \in DisplacementEnergies, depth \in CascadeDepths,
                        emin \in MinRecoilEnergies}
    /\ stop_at = "none"

NextRecoil ==
    \E site \in CollisionSites, e_recoil \in RecoilEnergies,
       generation \in Generations :
        RegisterCollision(site, e_recoil, generation)

SpecRecoil == InitRecoil /\ [][NextRecoil]_vars

\* ------------------------------------------- runs over given outcomes
\* Largest depth at which an ion comes to rest.
MaxDepth == 3

\* Number of ions of a run over given outcomes.
OutcomeIons == 3

\* The positions at which an ion may come to rest, on the axis of the beam.
RestPositions == {<<0, 0, z>> : z \in 1..MaxDepth}

\* The per-ion outcomes of a run: the position at which each ion will come
\* to rest, in the order in which the ions are processed.
Outcomes == [1..OutcomeIons -> RestPositions]

\* trajectory_with_path returns (line 99) for an ion that came to rest inside
\* the target at the position foreseen for it; the steps that took it there
\* are not followed.
TrajReturn ==
    /\ pc = "traj"
    /\ LET pos1 == probe.outcomes[i + 1]
       IN  ion' = [ion EXCEPT
                     !.pos = pos1, !.e = EMIN,
                     !.path = IF ion.record_path
                              THEN StepPath(@, ion.pos, pos1, EMIN)
                              ELSE @]
    /\ pc' = AfterTraj(pc)
    /\ UNCHANGED <<modvars, geovars, faces, params, initvars, sidevars,
                   callback, should_stop, results, args, i, worker, progress,
                   started, recorded>>

\* The Python modules are active and TRIMSimulation(params) is constructed
\* for a slab that holds every rest position; the outcomes are drawn.
InitOrder ==
    /\ cython_available = FALSE
    /\ parallel_available = FALSE
    /\ using_cython = FALSE
    /\ simulation_parallel = FALSE
    /\ use_parallel = FALSE
    /\ params = ParamsOf(OutcomeIons, <<0, 0, 1>>,
                         [geometry_type |-> "planar", geometry_params |-> <<>>,
                          zmin |-> 0, zmax |-> MaxDepth])
    /\ callback = FALSE
    /\ should_stop = FALSE
    /\ results = NewResults
    /\ pc = "idle"
    /\ args = [record_trajectories |-> FALSE, max_trajectories |-> 0]
    /\ i = 0
    /\ ion = NoIon
    /\ worker = NoWorker
    /\ progress = <<>>
    /\ started = 0
    /\ recorded = <<>>
    /\ faces = NoFaces
    /\ global_geometry = NoGeometry
    /\ probe \in [op : {"outcomes"}, outcomes : Outcomes]
    /\ pos_init = NoArray
    /\ dir_init = NoArray
    /\ cascade = NoCascade
    /\ stop_at = "none"

NextOrder ==
    \/ RunCall
    \/ RunReset
    \/ RunSetup
    \/ LoopCheck
    \/ TrajReturn
    \/ IonDone
    \/ Finalize

SpecOrder == InitOrder /\ [][NextOrder]_vars

\* ------------------------------------------------- a run under the front end
\* max_trajectories of the run the front end starts (pytrim_gui.py, line 47).
GuiMaxTrajectories == 10

\* SimulationThread.run (pytrim_gui.py, lines 43..47): the thread the front
\* end started sets its progress callback and calls
\* run(record_trajectories=True, max_trajectories=10).
ThreadRun ==
    /\ pc = "idle"
    /\ callback' = TRUE
    /\ args' = [record_trajectories |-> TRUE,
                max_trajectories |-> GuiMaxTrajectories]
    /\ pc' = "entered"
    /\ UNCHANGED <<modvars, geovars, faces, params, initvars, sidevars,
                   should_stop, results, i, ion, worker, progress, started,
                   recorded>>

\* MainWindow.stop_simulation (pytrim_gui.py, lines 758..762), in the GUI
\* thread at any time after start_simulation: sim_thread is not None, so
\* SimulationThread.stop calls simulation.stop().  stop_at keeps where the
\* simulation thread stood at the first such call.
StopSimulation ==
    /\ should_stop' = TRUE
    /\ stop_at' = IF stop_at = "none" THEN pc ELSE stop_at
    /\ UNCHANGED <<modvars, geovars, faces, params, initvars, cascade,
                   callback, results, pc, args, i, ion, worker, progress,
                   started, recorded>>

\* MainWindow.start_simulation (pytrim_gui.py, lines 720..756) has made
\* TRIMSimulation(params) for a slab and started the simulation thread.
InitGui ==
    /\ cython_available \in BOOLEAN
    /\ parallel_available = cython_available
    /\ using_cython = cython_available
    /\ simulation_parallel = (cython_available /\ parallel_available)
    /\ use_parallel = FALSE
    /\ params \in {ParamsOf(n, <<0, 0, 1>>,
                             [geometry_type |-> "planar",
                              geometry_params |-> <<>>,
                              zmin |-> 0, zmax |-> 2]) : n \in 1..MaxCfgIons}
    /\ callback = FALSE
    /\ should_stop = FALSE
    /\ results = NewResults
    /\ pc = "idle"
    /\ args = [record_trajectories |-> FALSE, max_trajectories |-> 0]
    /\ i = 0
    /\ ion = NoIon
    /\ worker = NoWorker
    /\ progress = <<>>
    /\ started = 0
    /\ recorded = <<>>
    /\ faces = NoFaces
    /\ global_geometry = NoGeometry
    /\ probe = NoProbe
    /\ pos_init = NoArray
    /\ dir_init = NoArray
    /\ cascade = NoCascade
    /\ stop_at = "none"

NextGui ==
    \/ ThreadRun
    \/ StopSimulation
    \/ RunReset
    \/ RunSetup
    \/ LoopCheck
    \/ TrajStep
    \/ TrajEnd
    \/ IonDone
    \/ Finalize

SpecGui == InitGui /\ [][NextGui]_vars

\* ------------------------------------------------------------------ claims
Min(a, b) == IF a <= b THEN a ELSE b

\* The run takes the sequential loop (the module flags and the parameters
\* do not change while a run is in progress).
Sequential == ~UseParallelPath

\* The thread is inside the sequential loop of run().
InSeqLoop == pc \in {"loop", "traj", "ion_ret"}

\* The thread is inside run_parallel_simulation.
InParallel == pc \in {"par_loop", "par_traj", "par_ret"}

\* run() has returned or raised.
Returned == pc \in {"done", "raised"}

\* C1: when a sequential run returns, total_ions is the number of ions that
\* were actually completed (the loop index at the break), also when stop()
\* ended the loop early.
C1_TotalIonsIsCompleted ==
    (Returned /\ Sequential) => results.total_ions = i

\* C2: once stop() has been called while the sequential loop executes, no
\* further trajectory is started; the ion in flight keeps stepping until it
\* returns and is accumulated; the loop head then leaves for the statistics
\* with every started ion completed.
StopHonoured ==
    (should_stop /\ InSeqLoop) =>
        /\ started' = started
        /\ should_stop'
        /\ pc = "traj" => pc' \in {"traj", "ion_ret"}
        /\ pc = "ion_ret" => (pc' \in {"ion_ret", "loop"} /\ i' >= i)
        /\ pc = "loop" => (pc' \in {"loop", "finalize"} /\ started = i)

C2_StopBetweenIons == [][StopHonoured]_vars

\* C2 witness: a sequential run that stop() ended early, after at least one
\* completed ion, has returned.
C2_Witness ==
    /\ pc = "done"
    /\ Sequential
    /\ should_stop
    /\ 0 < i
    /\ i < params.nion

\* C3: once stop() has been called while the parallel path executes, no
\* further trajectory is started.
C3_ParallelStopHonoured ==
    [][(should_stop /\ InParallel) => started' = started]_vars

\* What a sequential run leaves in the results for the stopped positions
\* ps (lines 468..486 for every stopped ion, then lines 495..511).
RECURSIVE SeqSums(_, _)
SeqSums(r, ps) ==
    IF ps = <<>> THEN r ELSE SeqSums(SeqAccumulate(r, Head(ps)), Tail(ps))

SeqStatsOf(ps) ==
    LET r == SeqSums(NewResults, ps)
    IN  IF HasStopped(r.count_inside) THEN FinalizeStats(r)
        ELSE [ok |-> TRUE, r |-> r]

\* The eight statistics of a results object.
StatsOf(r) ==
    <<r.mean_x, r.mean_y, r.mean_z, r.mean_r,
      r.std_x, r.std_y, r.std_z, r.std_r>>

\* C4: a parallel run reports the same means and standard deviations as a
\* sequential run reports for the same list of stopped positions.
C4_ParallelStatsAsSequential ==
    (pc = "done" /\ UseParallelPath) =>
        LET f == SeqStatsOf(results.stopped_positions)
        IN  f.ok => StatsOf(results) = StatsOf(f.r)

\* C5: a run in which no ion stops inside the target, in particular a run
\* with nion = 0, does not raise and returns count_inside = 0 with all means
\* and standard deviations zero.
C5_NoStoppedIonAllZero ==
    /\ pc = "raised" => results.count_inside > 0
    /\ (Returned /\ params.nion = 0) => results.count_inside = 0
    /\ (Returned /\ results.count_inside = 0) =>
           StatsOf(results) = <<0, 0, 0, 0, 0, 0, 0, 0>>

\* C5 witness: a run with nion = 0 has returned.
C5_Witness == pc = "done" /\ params.nion = 0 /\ results.count_inside = 0

\* C6: the finalization of the statistics never fails.
C6_FinalizeNeverFails == pc # "raised"

EntryPos(en) == SubSeq(en, 1, 3)

\* C8: when a recorded trajectory returns, the last entry of its trace has
\* the returned final position.
C8_TraceEndsAtFinalPosition ==
    (pc \in {"ion_ret", "par_ret"} /\ ion.record_path) =>
        /\ Len(ion.path) >= 1
        /\ EntryPos(ion.path[Len(ion.path)]) = ion.pos

\* C8 witness: a recorded trajectory of two steps has returned.
C8_Witness == pc = "ion_ret" /\ ion.record_path /\ Len(ion.path) = 3

\* C9: every entry of every stored trace has the four components
\* (x, y, z, energy).
C9_EntriesCarryEnergy ==
    \A j \in 1..Len(results.trajectories) :
        \A k \in 1..Len(results.trajectories[j]) :
            Len(results.trajectories[j][k]) = 4

\* Ions completed by the sequential loop so far.
Completed == IF pc \in {"traj", "ion_ret"} THEN started - 1 ELSE started

\* C10: in the sequential path the progress callback has been called exactly
\* once per completed ion, with (1, N), (2, N), ... in this order.
C10_ProgressPerCompletedIon ==
    (Sequential /\ (InSeqLoop \/ pc = "finalize" \/ Returned)) =>
        progress = IF callback
                   THEN [j \in 1..Completed |-> <<j, params.nion>>]
                   ELSE <<>>

\* C10 witness: a sequential run with a callback was stopped after two of
\* three ions.
C10_Witness ==
    /\ pc = "done"
    /\ Sequential
    /\ callback
    /\ Len(progress) = 2
    /\ params.nion = 3

\* The pure Python modules are the active ones.
PythonMode == ~using_cython

\* The global geometry is the one this object's setup() made.
OwnGeometry == global_geometry = CreateGeometry(params).obj

\* C11: when a run of the Python modules over a well-formed slab has
\* returned, the results report as backscattered the ions that left through
\* the front face (z below z_min), as transmitted those that left through
\* the back face or through no determinable face, and as stopped those that
\* came to rest inside.
C11_OutcomeCounts ==
    (/\ pc = "done"
     /\ PythonMode
     /\ params.geometry_type = "planar"
     /\ params.zmin <= params.zmax
     /\ OwnGeometry) =>
        /\ Backscattered(results) = faces.front
        /\ Transmitted(results) = faces.back + faces.side
        /\ Stopped(results) + faces.front + faces.back + faces.side
               = params.nion

\* The point pos lies outside the axis-aligned box b.
OutsideBox(b, pos) ==
    \E k \in 1..3 : pos[k] < b[k][1] \/ pos[k] > b[k][2]

\* C12: for a geometry object of any class, a point outside the box
\* get_bounds() returns is classified outside by is_inside_target.
C12_OutsideBoundsIsOutside ==
    (probe.op = "point" /\ OutsideBox(probe.bounds, probe.pos)) =>
        ~probe.inside

\* C13: for a multilayer object, get_layer_index(z) is the index i of the
\* half-open interval [z_i, z_i+1) holding z, the last layer for z on the
\* final boundary, and -1 exactly when z is outside [z_min, z_max]; it is
\* non-negative exactly when is_inside_target accepts the depth z.
C13_LayerIndex ==
    probe.op = "layer" =>
        LET g   == global_geometry
            z   == probe.z
            idx == probe.index
        IN  /\ idx \in -1..(Len(g.layer_z) - 2)
            /\ (idx >= 0 /\ z # g.z_max) =>
                   (g.layer_z[idx + 1] <= z /\ z < g.layer_z[idx + 2])
            /\ z = g.z_max => idx = Len(g.layer_z) - 2
            /\ idx = -1 <=> (z < g.z_min \/ z > g.z_max)
            /\ idx >= 0 <=> probe.inside

\* C13 witness: the depth of the final boundary of a geometry of two layers
\* of different thickness was asked for, and the last layer returned.
C13_Witness ==
    /\ probe.op = "layer"
    /\ Len(global_geometry.layer_z) = 3
    /\ global_geometry.layer_z[1] < global_geometry.layer_z[2]
    /\ global_geometry.layer_z[2] < global_geometry.layer_z[3]
    /\ probe.z = global_geometry.z_max
    /\ probe.index = 1

\* The five geometry tags.
KnownTags == {"planar", "box", "cylinder", "sphere", "multilayer"}

\* run() has gone past its call of setup().
PastSetup == pc \notin {"idle", "entered", "setup"}

\* run() was left by the exception of setup(), with no trajectory started
\* and the results of the object untouched.
FailedInSetup == pc = "setup_raised" /\ started = 0 /\ results = NewResults

InvertedBounds(prm) ==
    LET t == lower(prm.geometry_type)
        p == prm.geometry_params
    IN  CASE t = "planar" /\ prm.geometry_type = "planar" ->
               prm.zmin > prm.zmax
          [] t = "planar" /\ prm.geometry_type # "planar" ->
               p.z_min > p.z_max
          [] t = "box" ->
               p.x_min > p.x_max \/ p.y_min > p.y_max \/ p.z_min > p.z_max
          [] t = "cylinder" -> p.z_min > p.z_max
          [] OTHER -> FALSE

\* The parameters prm carry a radius that is not positive.
NonPositiveRadius(prm) ==
    IF lower(prm.geometry_type) \in {"cylinder", "sphere"}
    THEN prm.geometry_params.radius <= 0
    ELSE FALSE

\* The parameters prm carry the zero vector as initial direction.
ZeroDirection(prm) == prm.dir_init = <<0, 0, 0>>

\* C15: with inverted geometry bounds, a non-positive radius or a zero
\* initial direction the run is rejected at setup: no trajectory is ever
\* started for such a configuration.
C15_InvalidConfigRejected ==
    (PythonMode /\ (InvertedBounds(params) \/ NonPositiveRadius(params)
                        \/ ZeroDirection(params))) => started = 0

\* C15, each kind of invalid configuration on its own.
C15_InvertedBoundsRejected ==
    (PythonMode /\ InvertedBounds(params)) => started = 0
C15_NonPositiveRadiusRejected ==
    (PythonMode /\ NonPositiveRadius(params)) => started = 0
C15_ZeroDirectionRejected ==
    (PythonMode /\ ZeroDirection(params)) => started = 0

\* C16: an exception raised inside the trajectory of one ion never leaves
\* run(): the run goes on with the remaining ions.
C16_IonFailureIsolated == pc # "aborted"

\* C17: what the progress callback finds in sim.results while the sequential
\* loop runs is never a set of running sums: its mean_* / std_* fields are
\* the initial zeros or the finalized statistics of the ions stopped so far.
C17_AccumulatorsNotExposed ==
    (Sequential /\ pc = "loop" /\ callback /\ progress # <<>>) =>
        LET f == SeqStatsOf(results.stopped_positions)
        IN  \/ StatsOf(results) = StatsOf(NewResults)
            \/ f.ok /\ StatsOf(results) = StatsOf(f.r)

\* The sequential loop stands between two ions.
BetweenIons == pc = "loop" /\ 1 <= i /\ i < params.nion

\* C18: between two ions of a run nothing, whatever other TRIMSimulation
\* objects do, changes the geometry that decides the containment test of
\* the run's remaining trajectories.
C18_GeometryFixedDuringRun ==
    [][(PythonMode /\ BetweenIons) => global_geometry' = global_geometry]_vars

\* The thread is in the parallel branch of run() (lines 408..451).
OnParallelPath == pc \in {"par_loop", "par_traj", "par_ret", "par_store"}

\* The thread is in the sequential part of run() (lines 459..516).
OnSequentialPath == pc \in {"loop", "traj", "ion_ret", "finalize"}

\* C19: run() is in its parallel branch only with parallel mode enabled, the
\* parallel module loaded (which needs the Cython modules active) and the
\* geometry_type 'planar'; in every other case, so for any other geometry
\* even with parallel mode enabled, it is in the sequential loop.
C19_ParallelOnlyPlanar ==
    /\ simulation_parallel => using_cython
    /\ OnParallelPath =>
           /\ use_parallel
           /\ simulation_parallel
           /\ params.geometry_type = "planar"
    /\ OnSequentialPath =>
           ~(/\ use_parallel
             /\ simulation_parallel
             /\ params.geometry_type = "planar")

\* C19 witness: with parallel mode enabled and the parallel module loaded, a
\* trajectory of a run over a box is in flight in the sequential loop.
C19_Witness ==
    /\ pc = "traj"
    /\ use_parallel
    /\ simulation_parallel
    /\ params.geometry_type = "box"

\* C20: every call set_use_cython(flag) returns True exactly when
\* is_using_cython() equals flag afterwards, and when it returns False it
\* leaves the module selection and is_using_cython() as they were; the
\* compiled modules are never the active ones unless they are available.
ToggleAsReported(f) ==
    /\ SetUseCythonReturns(f) <=> (using_cython' = f)
    /\ ~SetUseCythonReturns(f) =>
           UNCHANGED <<using_cython, simulation_parallel>>
    /\ using_cython' => cython_available

C20_ToggleReturn ==
    [][\A f \in BOOLEAN : SetUseCython(f) => ToggleAsReported(f)]_vars

\* C20 witness: with the compiled modules available, toggles have left the
\* Python modules active.
C20_Witness == pc = "idle" /\ cython_available /\ ~using_cython

\* C21: register_collision records a vacancy at the collision position
\* exactly when the transferred energy exceeds Ed; it returns a recoil event,
\* and logs that event, exactly when in addition the energy exceeds the
\* minimum trackable energy and generation < max_cascade_depth; in every
\* other case it returns None and the log of recoil events is unchanged.
CollisionRegistered(site, e_recoil, generation) ==
    LET displaced == e_recoil > cascade.Ed
        tracked   == /\ displaced
                     /\ e_recoil > cascade.E_min
                     /\ generation < cascade.max_cascade_depth
    IN  /\ cascade'.vacancies =
               IF displaced THEN Append(cascade.vacancies, site)
               ELSE cascade.vacancies
        /\ tracked =>
               /\ probe'.ret # None
               /\ probe'.ret.energy = e_recoil
               /\ probe'.ret.generation = generation
               /\ <<probe'.ret.x, probe'.ret.y, probe'.ret.z>> = site
               /\ cascade'.recoil_events =
                      Append(cascade.recoil_events, probe'.ret)
        /\ ~tracked =>
               /\ probe'.ret = None
               /\ cascade'.recoil_events = cascade.recoil_events

C21_RegisterCollision ==
    [][\A site \in CollisionSites, e_recoil \in RecoilEnergies,
          generation \in Generations :
           RegisterCollision(site, e_recoil, generation) =>
               CollisionRegistered(site, e_recoil, generation)]_vars

\* C21 witness: a simulator whose tracking threshold lies above Ed holds two
\* vacancies and one logged recoil event, and its last call returned None.
C21_Witness ==
    /\ cascade.E_min > cascade.Ed
    /\ Len(cascade.vacancies) = 2
    /\ Len(cascade.recoil_events) = 1
    /\ probe = [op |-> "register_collision", ret |-> None]

\* C22: a trajectory of the Python modules that returns with a remaining
\* energy <= E_min returns as stopped inside, wherever the advanced position
\* lies, and so is counted in count_inside.
C22_SpentIonIsStopped ==
    (pc = "ion_ret" /\ PythonMode /\ ion.e <= EMIN) => ion.is_inside

\* The sequences obtained from s by leaving out its k-th entry.
Without(s, k) == SubSeq(s, 1, k - 1) \o SubSeq(s, k + 1, Len(s))

\* The orders in which the entries of s can be arranged.
RECURSIVE Orders(_)
Orders(s) ==
    IF s = <<>> THEN {<<>>}
    ELSE UNION {{<<s[k]>> \o q : q \in Orders(Without(s, k))} :
                    k \in 1..Len(s)}

\* C24: the statistics a sequential run returns are those the run returns
\* for the same stopped ions processed in any other order.
C24_OrderInvariant ==
    (pc = "done" /\ Sequential) =>
        \A q \in Orders(results.stopped_positions) :
            LET f == SeqStatsOf(q)
            IN  f.ok /\ StatsOf(f.r) = StatsOf(results)

\* run() holds its local arrays (it is past line 405 and has not raised in
\* setup).
HoldsArrays == PastSetup /\ pc # "setup_raised"

\* C25: with the Python modules, no step of a run changes the arrays
\* pos_init and dir_init once they are made: they keep the configured
\* values, and every trajectory that is started begins at the configured
\* position, direction and energy, however many ions came before it.
InitialStateKept ==
    PythonMode =>
        /\ HoldsArrays' =>
               /\ pos_init' = get_pos_init(params)
               /\ dir_init' = get_dir_init(params)
        /\ started' = started + 1 =>
               /\ ion'.pos = get_pos_init(params)
               /\ ion'.dir = get_dir_init(params)
               /\ ion'.e = params.e_init

C25_InitialStateKept == [][InitialStateKept]_vars

\* C25 witness: the second trajectory of a run of the Python modules is at
\* its start, after a first ion that came to rest away from the initial
\* position.
C25_Witness ==
    /\ PythonMode
    /\ pc = "traj"
    /\ i = 1
    /\ ion = StartIon(ion.record_path)
    /\ ion.pos = get_pos_init(params)
    /\ Len(results.stopped_positions) = 1
    /\ results.stopped_positions[1] # get_pos_init(params)

\* The number of marching steps that fit into the maximum distance.
MaxSamples == max_distance \div step_size

\* No sample of the ray of the call in probe, up to the maximum marching
\* distance, differs in containment from the starting point.
NoFlipAlongRay ==
    \A k \in 0..(MaxSamples - 1) :
        Inside(global_geometry, RayPoint(probe.pos, probe.dir, k * step_size))
            = Inside(global_geometry, probe.pos)

\* C26: the fallback get_intersection makes at most max_distance/step_size
\* marching iterations and at most 10 refinement iterations, after which it
\* has returned; it returns (None, infinity) exactly when no containment
\* flip is observed at the samples within the maximum marching distance.
C26_BoundedMarch ==
    /\ probe.op \in {"marching", "returned"} => probe.samples <= MaxSamples
    /\ (probe.op = "marching" /\ probe.samples = MaxSamples) =>
           ~Marching(probe.distance)
    /\ probe.op = "returned" =>
           /\ probe.ret.found => probe.ret.refinements <= Refinements
           /\ ~probe.ret.found =>
                  (probe.ret.point = None /\ probe.ret.distance = inf)
           /\ NoFlipAlongRay <=> ~probe.ret.found

\* C26 witness: a ray from in front of a slab thinner than a marching step,
\* pointing at it, returned no intersection after all the samples.
C26_Witness ==
    /\ probe.op = "returned"
    /\ ~probe.ret.found
    /\ probe.samples = MaxSamples
    /\ global_geometry = PlanarGeometry(Angstrom(2), Angstrom(4))
    /\ probe.pos = <<0, 0, Angstrom(-5)>>
    /\ probe.dir = <<0, 0, 1>>

\* The coordinate of the point p along the ray of the call in probe,
\* measured from its start (the direction is a unit vector along an axis).
AlongRay(p) ==
    (p[1] - probe.pos[1]) * probe.dir[1]
        + (p[2] - probe.pos[2]) * probe.dir[2]
        + (p[3] - probe.pos[3]) * probe.dir[3]

\* C27: when the fallback get_intersection returns after a containment
\* flip, the returned point lies on the ray between the last two marching
\* samples, and the returned distance is the distance along the ray from
\* the start position to the returned point.
C27_DistanceToReturnedPoint ==
    (probe.op = "returned" /\ probe.ret.found) =>
        /\ probe.ret.point =
               RayPoint(probe.pos, probe.dir, AlongRay(probe.ret.point))
        /\ AlongRay(probe.ret.back) <= AlongRay(probe.ret.point)
        /\ AlongRay(probe.ret.point) <= probe.ret.distance
        /\ probe.ret.distance - AlongRay(probe.ret.back) = step_size
        /\ probe.ret.distance = AlongRay(probe.ret.point)

\* C27, its first half: the returned point lies on the ray between the last
\* two marching samples.
C27_PointBetweenSamples ==
    (probe.op = "returned" /\ probe.ret.found) =>
        /\ probe.ret.point =
               RayPoint(probe.pos, probe.dir, AlongRay(probe.ret.point))
        /\ AlongRay(probe.ret.back) <= AlongRay(probe.ret.point)
        /\ AlongRay(probe.ret.point) <= probe.ret.distance
        /\ probe.ret.distance - AlongRay(probe.ret.back) = step_size

\* C28: when the first stop() reaches the simulation after run() was
\* invoked and before its loop started (in particular before run() reset
\* the stop flag), the run does not simulate all the requested ions.
C28_StopNeverLost ==
    (/\ stop_at \in {"entered", "setup"}
     /\ pc = "done") => i < params.nion

\* C29: with the geometry that setup() of this run installed, every
\* position stored in stopped_positions lies inside the target, whatever
\* the initial energy and the initial position.
C29_StoredPositionsInside ==
    (PythonMode /\ OwnGeometry /\ pc \in {"loop", "finalize", "done"}) =>
        \A k \in 1..Len(results.stopped_positions) :
            Inside(global_geometry, results.stopped_positions[k])

\* C30: after any sequence of set_use_cython and set_use_parallel calls,
\* is_using_parallel() is True only if is_using_cython() is True.
C30_ParallelRequiresCython == is_using_parallel => is_using_cython

====
